---- MODULE Spec2Model ----
(***************************************************************************)
(* Knowbook Canvas: signup orchestration, the /api/knowbook/connect        *)
(* endpoint, the Backend API client and the credential store adapter.      *)
(*                                                                         *)
(* One auth account is modelled.  Its user_metadata lives in the auth      *)
(* provider (variable meta).  The processes are one signup run (S), the    *)
(* POST /api/knowbook/connect requests (Requests) and one invocation of    *)
(* updateApiKeyValidation (T).  Every await of the source is a step        *)
(* boundary; the synchronous code between two awaits is one action.        *)
(***************************************************************************)
EXTENDS Integers, Sequences, FiniteSets, TLC

\* ------------------------------------------------------------------ bounds
NumRequests == 2          \* concurrent POST /api/knowbook/connect requests
NumLoads == 2             \* runs of loadKnowbookMetadata (the first is the mount)
NumValidates == 1         \* calls of the hook's validateApiKey

\* --------------------------------------------------------------- constants
HoursMs == 3600000        \* 1000 * 60 * 60
RefreshHours == 24
SyntheticStatus == 500    \* status of the typed error built for a transport failure
ClampLow == 400
ClampHigh == 600
ClampDefault == 500

\* Process identities.
S == <<"signup", 0>>                                  \* the signup run
T == <<"touch", 0>>                                   \* updateApiKeyValidation
Requests == {<<"connect", i>> : i \in 1..NumRequests}  \* POST connect requests
Issuers == {S} \cup Requests          \* processes that may obtain an api key

Absent == <<>>                        \* undefined / null
NoTime == 0 - 1                       \* timestamp not set

\* The instants (ms) the wall clock shows in a behaviour: the start, and one
\* second more than the 24 h window later.
Instants == {0, RefreshHours * HoursMs + 1000}

\* What the Backend API issues in answer to the organization-signup request
\* sent by process p: a fresh admin user (id, api_key) and organization (id).
ApiKeyOf(p) == <<"key", p>>
AdminIdOf(p) == <<"uid", p>>
OrgIdOf(p) == <<"org", p>>

\* ------------------------------------------------------- Backend API client
\* HTTP statuses the Backend API (or a proxy in front of it) may answer with.
Statuses == {200, 302, 404, 600}

\* Response.ok
ResponseOk(status) == status >= 200 /\ status <= 299

\* Bodies: what response.json() yields.
\*  "full"       {organization, admin_user:{..., api_key}, message}
\*  "nokey"      {organization, admin_user:{...}} (api_key is optional)
\*  "noadmin"    a JSON object without admin_user
\*  "null"       the JSON value null
\*  "unparsable" response.json() rejects
\*  "err_detail" {error, detail, status_code}
\*  "err_plain"  a JSON object without error/detail
OkBodies == {"full", "nokey", "noadmin", "null", "unparsable"}
ErrBodies == {"err_detail", "err_plain", "null", "unparsable"}

\* Outcomes of one fetch() over the statuses sts: the promise rejects, or
\* resolves to a response.
FetchOutcomesOver(sts) ==
  {[kind |-> "reject", status |-> 0, body |-> "none"]}
  \cup {[kind |-> "response", status |-> st, body |-> b] :
          st \in {x \in sts : ResponseOk(x)}, b \in OkBodies}
  \cup {[kind |-> "response", status |-> st, body |-> b] :
          st \in {x \in sts : ~ResponseOk(x)}, b \in ErrBodies}
FetchOutcomes == FetchOutcomesOver(Statuses)

Returned(v) == [type |-> "return", value |-> v, typed |-> FALSE,
                statusCode |-> 0, message |-> "none", details |-> "none"]
KnowbookApiError(msg, status, det) ==
  [type |-> "throw", value |-> "none", typed |-> TRUE,
   statusCode |-> status, message |-> msg, details |-> det]
UntypedError(msg) ==
  [type |-> "throw", value |-> "none", typed |-> FALSE,
   statusCode |-> 0, message |-> msg, details |-> "none"]

\* The inner part of the try block of createOrganizationWithAdmin: what the
\* statements between `try {` and `} catch` return or throw.
CreateOrgTryBlock(f) ==
  IF f.kind = "reject" THEN UntypedError("fetch_failed")
  ELSE IF ~ResponseOk(f.status) THEN
         \* errorData = await response.json().catch(() => fallback)
         IF f.body = "null"
           THEN UntypedError("type_error")          \* errorData.error on null
         ELSE IF f.body = "err_detail"
           THEN KnowbookApiError("server_error", f.status, "server_detail")
         ELSE KnowbookApiError("Failed to create organization", f.status, "none")
       ELSE IF f.body = "unparsable" THEN UntypedError("syntax_error")
       ELSE Returned(f.body)

\* createOrganizationWithAdmin: the catch block rethrows a typed error as it
\* is and wraps everything else in a typed error with status 500.
CreateOrganizationWithAdmin(f) ==
  LET r == CreateOrgTryBlock(f) IN
  IF r.type = "throw" /\ ~r.typed
    THEN KnowbookApiError("Network error connecting to Knowbook API",
                          SyntheticStatus, r.message)
    ELSE r

\* healthCheck / validateApiKey: one GET whose promise rejects (the 5 s abort
\* of healthCheck is a rejection) or resolves to a response.
ProbeOutcomesOver(sts) ==
  {[kind |-> "reject", status |-> 0]}
  \cup {[kind |-> "response", status |-> st] : st \in sts}
ProbeOutcomes == ProbeOutcomesOver(Statuses)

\* The try block of healthCheck / validateApiKey: `return response.ok`, or
\* the rejection of fetch thrown at the await.
ProbeTryBlock(f) ==
  IF f.kind = "reject" THEN UntypedError("fetch_failed")
  ELSE Returned(IF ResponseOk(f.status) THEN "true" ELSE "false")

\* Variant: the catch block lets the exception through.
ProbeCatchRethrow(r) == r

\* The catch block of healthCheck / validateApiKey: log and return false.
ProbeCatch(r) == IF r.type = "throw" THEN Returned("false") ELSE r

\* What the two probes return or throw.
HealthCheckResult(f) == ProbeCatch(ProbeTryBlock(f))
ValidateApiKeyResult(apiKey, f) == ProbeCatch(ProbeTryBlock(f))

\* The boolean the callers of the probes receive.
HealthCheck(f) == HealthCheckResult(f).value = "true"
ValidateApiKey(f) == ValidateApiKeyResult(Absent, f).value = "true"

\* ---------------------------------------------------- credential store
\* user_metadata of the account.
EmptyMeta == [knowbook_api_key |-> Absent, knowbook_user_id |-> Absent,
              knowbook_organization_id |-> Absent,
              api_key_created_at |-> NoTime, api_key_last_validated |-> NoTime,
              full_name |-> Absent]

\* How a metadata key that is not set is represented.
UnsetValue(k) ==
  IF k \in {"api_key_created_at", "api_key_last_validated"} THEN NoTime ELSE Absent

\* Variant: an update that never replaces a value already stored.
UpdateUserMetadataKeepExisting(cur, upd) ==
  [k \in DOMAIN cur |->
     IF k \in DOMAIN upd /\ cur[k] = UnsetValue(k) THEN upd[k] ELSE cur[k]]

\* auth.admin.updateUserById(userId, {user_metadata: upd}): the provider
\* sets the keys present in upd and leaves the other keys as they are.
\* upd is a record over a subset of the metadata keys.
UpdateUserMetadata(cur, upd) ==
  [k \in DOMAIN cur |-> IF k \in DOMAIN upd THEN upd[k] ELSE cur[k]]

\* Variant: the stored record carries no validation time.
StoreMetadataUnvalidated(apiKey, knowbookUserId, organizationId, t) ==
  [knowbook_api_key |-> apiKey, knowbook_user_id |-> knowbookUserId,
   knowbook_organization_id |-> organizationId,
   api_key_created_at |-> t, api_key_last_validated |-> NoTime]

\* The metadata object storeKnowbookApiKey builds at time t.
StoreMetadata(apiKey, knowbookUserId, organizationId, t) ==
  [knowbook_api_key |-> apiKey, knowbook_user_id |-> knowbookUserId,
   knowbook_organization_id |-> organizationId,
   api_key_created_at |-> t, api_key_last_validated |-> t]

\* Outcomes of the provider's update call.
UpdateOutcomes == {"ok", "error", "throw"}

\* Variant: the provider's error is not looked at.
StoreResultAlwaysSuccess(o) == [success |-> TRUE]

\* storeKnowbookApiKey's result: {success} - never throws.
StoreResult(o) == [success |-> (o = "ok")]

\* Variant: a record validated exactly 24 h ago is refreshed too.
ShouldRefreshApiKeyAtLeast(m, t) ==
  IF m.api_key_last_validated = NoTime THEN TRUE
  ELSE (t - m.api_key_last_validated) >= RefreshHours * HoursMs

\* shouldRefreshApiKey(metadata) at time t.  hoursSinceValidation > 24 is
\* compared on the millisecond difference (the division is exact in the
\* comparison: d / 3600000 > 24  <=>  d > 24 * 3600000).
ShouldRefreshApiKey(m, t) ==
  IF m.api_key_last_validated = NoTime THEN TRUE
  ELSE (t - m.api_key_last_validated) > RefreshHours * HoursMs

\* ------------------------------------------------------------ connect route
\* Variant: the error's status code is used as it is.
ClampStatusPassThrough(s) == s

\* The status of the error response built for a KnowbookApiError.
ClampStatus(s) == IF s >= ClampLow /\ s < ClampHigh THEN s ELSE ClampDefault

Response(st, tg) == [status |-> st, tag |-> tg]
NoResponse == Response(0, "none")

\* ------------------------------------------ organization-signup request
\* A JavaScript value that is undefined or a string; a string is the
\* sequence of its characters (longer tokens stand for runs without '@').
Undefined == [set |-> FALSE, text |-> <<>>]
Str(t) == [set |-> TRUE, text |-> t]
Truthy(v) == v.set /\ v.text # <<>>

\* a || b
Or(a, b) == IF Truthy(a) THEN a ELSE b

\* s.split('@'): the parts of s between the '@' characters.
RECURSIVE BeforeAt(_)
BeforeAt(s) ==
  IF s = <<>> \/ Head(s) = "@" THEN <<>>
  ELSE <<Head(s)>> \o BeforeAt(Tail(s))
RECURSIVE Split(_)
Split(s) ==
  LET h == BeforeAt(s) IN
  IF Len(h) = Len(s) THEN <<h>>
  ELSE <<h>> \o Split(SubSeq(s, Len(h) + 2, Len(s)))

\* parts[i] of a JavaScript array (0-based): undefined beyond the end.
At(parts, i) == IF i + 1 <= Len(parts) THEN Str(parts[i + 1]) ELSE Undefined

\* Variant: the full name wins over the organization name.
SignupOrganizationNameFullNameFirst(input) ==
  Or(input.fullName, Or(input.organizationName, At(Split(input.email), 0)))

\* signup, lines 47-48: the organization name.
SignupOrganizationName(input) ==
  Or(input.organizationName,
     IF Truthy(input.fullName) THEN input.fullName
     ELSE At(Split(input.email), 0))

\* signup, lines 46-57: the arguments of createKnowbookOrganization, as the
\* signupData object the wrapper builds from them.
SignupData(input) ==
  [name |-> SignupOrganizationName(input),
   admin_name |-> Or(input.fullName, At(Split(input.email), 0)),
   admin_email |-> Str(input.email),
   domain |-> At(Split(input.email), 1),
   plan |-> Or(input.plan, Str(<<"free">>)),
   admin_type |-> Undefined]

\* Variant: the client sends the free plan whatever it was given.
ClientRequestBodyAlwaysFree(signupData) ==
  [name |-> signupData.name, domain |-> signupData.domain,
   plan |-> Str(<<"free">>),
   admin_name |-> signupData.admin_name,
   admin_email |-> signupData.admin_email,
   admin_type |-> Or(signupData.admin_type, Str(<<"human">>))]

\* createOrganizationWithAdmin, lines 81-88: the JSON body of the request.
ClientRequestBody(signupData) ==
  [name |-> signupData.name, domain |-> signupData.domain,
   plan |-> Or(signupData.plan, Str(<<"free">>)),
   admin_name |-> signupData.admin_name,
   admin_email |-> signupData.admin_email,
   admin_type |-> Or(signupData.admin_type, Str(<<"human">>))]

\* Signup inputs: every field absent, empty or given; emails with no, one
\* and two '@' and with an empty local part.
SignupInputs ==
  [email : {<<"an", "@", "x">>, <<"@", "x">>, <<"an">>,
            <<"an", "@", "x", "@", "y">>},
   fullName : {Undefined, Str(<<>>), Str(<<"Ann">>)},
   organizationName : {Undefined, Str(<<>>), Str(<<"Acme">>)},
   plan : {Undefined, Str(<<>>), Str(<<"free">>), Str(<<"pro">>)}]

NoSignupInput == [email |-> <<>>, fullName |-> Undefined,
                  organizationName |-> Undefined, plan |-> Undefined]
NoRequest == [name |-> Undefined, domain |-> Undefined, plan |-> Undefined,
              admin_name |-> Undefined, admin_email |-> Undefined,
              admin_type |-> Undefined]

\* ------------------------------------- connection-status consumer (hook)
\* Processes of the consumer: the runs of loadKnowbookMetadata (the first is
\* the one the mount effect starts) and the calls of validateApiKey.
Loads == {<<"load", i>> : i \in 1..NumLoads}
Validates == {<<"validate", i>> : i \in 1..NumValidates}
HookProcs == Loads \cup Validates
Mount == <<"load", 1>>
Hook == <<"hook", 0>>                 \* operations that are one synchronous step

\* The object getKnowbookMetadata and onAuthStateChange build from the
\* account's user_metadata.
KnowbookKeys == {"knowbook_api_key", "knowbook_user_id",
                 "knowbook_organization_id", "api_key_created_at",
                 "api_key_last_validated"}
KnowbookMetadataOf(m) == [k \in KnowbookKeys |-> m[k]]

\* metadata in the hook state and in a callback: <<>> is null, <<md>> an object.
NullMetadata == <<>>
HasApiKey(md) ==
  IF md = NullMetadata THEN FALSE ELSE md[1].knowbook_api_key # Absent

\* useState's initial value.
InitialHookState ==
  [apiKey |-> Absent, isLoading |-> TRUE, isValidated |-> FALSE,
   metadata |-> NullMetadata, error |-> "none"]

\* loadKnowbookMetadata without a user.
SetNoUser(st) ==
  [st EXCEPT !.apiKey = Absent, !.isLoading = FALSE, !.isValidated = FALSE,
             !.metadata = NullMetadata, !.error = "none"]

\* loadKnowbookMetadata with a user, before the await.
SetLoading(st) == [st EXCEPT !.isLoading = TRUE, !.error = "none"]

\* Variant: the key is stored but the loading flag is left for the probe.
SetKeyLoadedStillLoading(st, md) ==
  [st EXCEPT !.apiKey = md[1].knowbook_api_key, !.metadata = md]

\* loadKnowbookMetadata, metadata with an api key.
SetKeyLoaded(st, md) ==
  [st EXCEPT !.apiKey = md[1].knowbook_api_key, !.metadata = md,
             !.isLoading = FALSE]

\* loadKnowbookMetadata, the key needs no refresh.
SetValidated(st) == [st EXCEPT !.isValidated = TRUE]

\* loadKnowbookMetadata, metadata null or without an api key.
SetNoKey(st, md) ==
  [st EXCEPT !.apiKey = Absent, !.metadata = md, !.isLoading = FALSE,
             !.error = "No Knowbook API key found. Please contact support."]

\* Variant: the mount-time load probes whatever the record's age.
LoadProbesAlways(md, t) == TRUE

\* loadKnowbookMetadata: whether the loaded key is probed.
LoadProbes(md, t) == ShouldRefreshApiKey(md[1], t)

\* Variant: a positive probe leaves the error in place.
SetProbeResultKeepError(st, isValid) ==
  [st EXCEPT !.isValidated = isValid,
             !.error = IF isValid THEN st.error ELSE "Invalid Knowbook API key"]

\* validateApiKeyInternal after the probe returned isValid.
SetProbeResult(st, isValid) ==
  [st EXCEPT !.isValidated = isValid,
             !.error = IF isValid THEN "none" ELSE "Invalid Knowbook API key"]

\* Variant: a positive probe stamps api_key_last_validated at time t.
RecordAfterProbeTouched(m, isValid, t) ==
  IF isValid THEN [m EXCEPT !.api_key_last_validated = t] ELSE m

\* validateApiKeyInternal, given the Credential Record m, the probe's
\* result and the time: it sets the hook's state only and calls neither
\* updateApiKeyValidation nor any other write of the credential store, so
\* the record after it is the record before it.
RecordAfterProbe(m, isValid, t) == m

\* clearError.
SetErrorCleared(st) == [st EXCEPT !.error = "none"]

\* The auth-state callback of the hook, given the callback's argument.
SetFromAuthState(st, md, t) ==
  IF HasApiKey(md)
    THEN [st EXCEPT !.apiKey = md[1].knowbook_api_key, !.metadata = md,
                    !.isValidated = ~ShouldRefreshApiKey(md[1], t)]
    ELSE [st EXCEPT !.apiKey = Absent, !.metadata = NullMetadata,
                    !.isValidated = FALSE]

\* useKnowbookApiKey: the key handed to components, Absent for null.
UseKnowbookApiKey(st) == IF st.isValidated THEN st.apiKey ELSE Absent

\* useHasKnowbookAccess.
UseHasKnowbookAccess(st) == st.apiKey # Absent /\ st.isValidated

\* Variant: a missing key is tested before the error.
StatusBadgeKeyFirst(st) ==
  IF st.isLoading THEN "Checking..."
  ELSE IF st.apiKey = Absent THEN "Not Connected"
  ELSE IF st.error # "none" THEN "Error"
  ELSE IF st.isValidated THEN "Connected"
  ELSE "Needs Validation"

\* KnowbookStatus: the badge shown for a hook state.
StatusBadge(st) ==
  IF st.isLoading THEN "Checking..."
  ELSE IF st.error # "none" THEN "Error"
  ELSE IF st.apiKey = Absent THEN "Not Connected"
  ELSE IF st.isValidated THEN "Connected"
  ELSE "Needs Validation"

\* KnowbookStatus, getStatusMessage: the line under the badge.
StatusMessage(st) ==
  IF st.isLoading THEN "Checking Knowbook connection..."
  ELSE IF st.error # "none" THEN st.error
  ELSE IF st.apiKey = Absent
    THEN "No Knowbook API key found. Please contact support."
  ELSE IF st.isValidated THEN "Successfully connected to Knowbook"
  ELSE "API key needs validation"

\* KnowbookStatus: the buttons the card renders and lets the user press.
ValidateButtonEnabled(st) ==
  st.apiKey # Absent /\ ~st.isValidated /\ ~st.isLoading
ClearErrorButtonShown(st) == st.error # "none"

\* KnowbookStatus renders no control that starts a connection for a user
\* without a key (only the advice of lines 184-190), and refreshApiKey of
\* the hook is a placeholder: the only action that goes to the Backend API
\* again is "Validate Connection".
RetryEnabled(st) == ValidateButtonEnabled(st)

\* ------------------------------------------------------------------- state
VARIABLES
  now,        \* wall clock (ms)
  account,    \* the auth account: [exists, email]
  meta,       \* the account's user_metadata in the auth provider
  spc,        \* signup run: position
  sres,       \* signup run: how it ended (redirect target or "exception")
  cpc,        \* connect request r: position
  cresp,      \* connect request r: the response it answered with
  cerr,       \* connect request r: the error its catch block received
  tpc,        \* updateApiKeyValidation: position
  tsnap,      \* updateApiKeyValidation: the metadata it read
  calls,      \* per process, the external calls it has made, in order
  outs,       \* per process, what each returned call returned, in order
  wrote,      \* the issuers whose credential write took effect, in order
  cin,        \* client harness: the fetch outcome handed to the client
  cout,       \* client harness: what the client returned or threw
  pin,        \* probe harness: the outcome of the probe's fetch
  pop,        \* probe harness: the probe called, and the api key given
  pout,       \* probe harness: what the probe returned or threw
  rin,        \* staleness harness: the record and the clock reading
  rout,       \* staleness harness: what shouldRefreshApiKey returned
  session,    \* browser: the auth client holds a signed-in session
  huser,      \* useKnowbookAuth: the user the UserContext provides (present or not)
  hs,         \* useKnowbookAuth: the hook's state object
  hpc,        \* hook process p: position
  hmd,        \* load l: the metadata getKnowbookMetadata returned to it
  hat,        \* load l: the clock reading when it looked at the metadata
  hkey,       \* hook process p: the api key it handed to validateApiKeyInternal
  hret,       \* hook process p: what validateApiKeyInternal / validateApiKey returned
  hcalls,     \* hook process p: the external calls it has made, in order
  hlast,      \* the last hook operation that ran, and the process that ran it
  hquiet,     \* nothing but the mount-time load has run so far
  qin,        \* request harness: the signup input
  qout,       \* request harness: the organization-signup request body sent
  ein,        \* endpoint harness: what a connect handler has in hand
  eout        \* endpoint harness: the response the handler built

flowVars == <<now, account, meta, spc, sres, cpc, cresp, cerr, tpc,
              tsnap, calls, outs, wrote>>
reqVars == <<qin, qout>>
endVars == <<ein, eout>>
clientVars == <<cin, cout, pin, pop, pout, rin, rout, reqVars, endVars>>
hookVars == <<session, huser, hs, hpc, hmd, hat, hkey, hret, hcalls, hlast,
              hquiet>>
vars == <<flowVars, clientVars, hookVars>>

Procs == Issuers \cup {T}

NoError == [typed |-> FALSE, statusCode |-> 0, message |-> "none"]
Caught(e) == [typed |-> e.typed, statusCode |-> e.statusCode, message |-> "thrown"]
NoFetch == [kind |-> "none", status |-> 0, body |-> "none"]
NoResult == [type |-> "none", value |-> "none", typed |-> FALSE,
             statusCode |-> 0, message |-> "none", details |-> "none"]
NoProbe == [kind |-> "none", status |-> 0]
NoCall == [name |-> "none", apiKey |-> Absent]
NoEndpointInput == [handler |-> "none", tag |-> "none", kind |-> "none",
                    stored |-> FALSE, issuer |-> S, key |-> ApiKeyOf(S),
                    fetch |-> NoFetch]
NoEndpointResponse == [status |-> 0, body |-> [error |-> "none"]]

InitFlow ==
  /\ now = 0
  /\ account \in {[exists |-> FALSE, email |-> FALSE]}
                 \cup {[exists |-> TRUE, email |-> e] : e \in BOOLEAN}
  /\ meta = EmptyMeta
  /\ spc = "start"
  /\ sres = "none"
  /\ cpc = [r \in Requests |-> "start"]
  /\ cresp = [r \in Requests |-> NoResponse]
  /\ cerr = [r \in Requests |-> NoError]
  /\ tpc = "start"
  /\ tsnap = EmptyMeta
  /\ calls = [p \in Procs |-> <<>>]
  /\ outs = [p \in Procs |-> <<>>]
  /\ wrote = <<>>

InitProbeIdle ==
  /\ pin = NoProbe
  /\ pop = NoCall
  /\ pout = NoResult

InitStaleIdle ==
  /\ rin = [metadata |-> EmptyMeta, time |-> 0]
  /\ rout = "none"

InitRequestIdle ==
  /\ qin = NoSignupInput
  /\ qout = NoRequest

InitEndpointIdle ==
  /\ ein = NoEndpointInput
  /\ eout = NoEndpointResponse

\* The hook before it is mounted.
InitHookProcs ==
  /\ hs = InitialHookState
  /\ hpc = [p \in HookProcs |-> "idle"]
  /\ hmd = [l \in Loads |-> NullMetadata]
  /\ hat = [l \in Loads |-> NoTime]
  /\ hkey = [p \in HookProcs |-> Absent]
  /\ hret = [p \in HookProcs |-> "none"]
  /\ hcalls = [p \in HookProcs |-> <<>>]
  /\ hlast = <<"none", Hook>>
  /\ hquiet = TRUE

InitHookIdle ==
  /\ session = FALSE
  /\ huser = FALSE
  /\ InitHookProcs

Init ==
  /\ InitFlow
  /\ cin = NoFetch
  /\ cout = NoResult
  /\ InitProbeIdle
  /\ InitStaleIdle
  /\ InitRequestIdle
  /\ InitEndpointIdle
  /\ InitHookIdle

\* Process p learns that its pending call returned o and issues the calls cs.
Step(p, o, cs) ==
  /\ outs' = [outs EXCEPT ![p] = Append(@, o)]
  /\ calls' = [calls EXCEPT ![p] = @ \o cs]

\* The wall clock advances.
Tick ==
  /\ \E t \in Instants : t > now /\ now' = t
  /\ UNCHANGED <<account, meta, spc, sres, cpc, cresp, cerr, tpc, tsnap,
                 calls, outs, wrote, clientVars, hookVars>>

\* ------------------------------------------------------------------ signup
\* redirect() throws NEXT_REDIRECT: nothing after it runs.
SignupRedirect(target) ==
  /\ spc' = "done"
  /\ sres' = target

SignupContinue(pos) ==
  /\ spc' = pos
  /\ sres' = sres

\* Variant: a catch block that handles KnowbookApiError only and rethrows
\* the rest.
SignupCatchRethrow(typed) ==
  IF typed THEN "/auth/signup/success" ELSE "exception"

\* signup's catch block, lines 73-87, for a caught error that is
\* (typed) or is not a KnowbookApiError: it logs and falls through to the
\* redirect of line 92.
SignupCatch(typed) == "/auth/signup/success"

\* The effect of storeKnowbookApiKey for the credentials issued to p when
\* the provider's update call has outcome o.
StoreKnowbookApiKey(p, o) ==
  IF o = "ok"
    THEN /\ meta' = UpdateUserMetadata(meta,
                      StoreMetadata(ApiKeyOf(p), AdminIdOf(p), OrgIdOf(p), now))
         /\ wrote' = Append(wrote, p)
    ELSE UNCHANGED <<meta, wrote>>

\* Variant: the redirect of line 33 does not end the run.
SignupAuthErrorFallsThrough ==
  /\ SignupContinue("health")
  /\ calls' = [calls EXCEPT ![S] = <<"signUp", "health">>]

\* signup, lines 31-34: authError is set.
SignupAuthError ==
  /\ SignupRedirect("/auth/signup?error=supabase")
  /\ calls' = [calls EXCEPT ![S] = <<"signUp">>]

\* signup, lines 14-40: supabase.auth.signUp returns.
SignupSignUp ==
  /\ spc = "start"
  /\ calls[S] = <<>>
  /\ \E o \in {"error", "user", "nouser"} :
       /\ account.exists => o = "error"          \* duplicate email
       /\ IF o = "error"
            THEN /\ SignupAuthError
                 /\ outs' = [outs EXCEPT ![S] = <<o>>]
                 /\ UNCHANGED <<account, meta>>
          ELSE IF o = "nouser"
            THEN /\ SignupRedirect("/auth/signup/success")
                 /\ calls' = [calls EXCEPT ![S] = <<"signUp">>]
                 /\ outs' = [outs EXCEPT ![S] = <<o>>]
                 /\ UNCHANGED <<account, meta>>
          ELSE /\ account' = [exists |-> TRUE, email |-> TRUE]
               /\ meta' = [meta EXCEPT !.full_name = <<"name">>]
               /\ SignupContinue("health")
               /\ calls' = [calls EXCEPT ![S] = <<"signUp", "health">>]
               /\ outs' = [outs EXCEPT ![S] = <<o>>]
  /\ UNCHANGED <<now, cpc, cresp, cerr, tpc, tsnap, wrote, clientVars, hookVars>>

\* Variant: the organization is created whatever the health check said.
SignupAfterHealthIgnored(isApiAvailable) ==
  /\ SignupContinue("createOrg")
  /\ Step(S, IF isApiAvailable THEN "true" ELSE "false", <<"org">>)

\* signup, lines 42-72: the branch on isApiAvailable.
SignupAfterHealth(isApiAvailable) ==
  IF isApiAvailable
    THEN /\ SignupContinue("createOrg")
         /\ Step(S, "true", <<"org">>)
    ELSE /\ SignupRedirect("/auth/signup/success")
         /\ Step(S, "false", <<>>)

\* signup, lines 40-57 and 70-72: isKnowbookApiAvailable returns.
SignupHealth ==
  /\ spc = "health"
  /\ \E f \in ProbeOutcomes : SignupAfterHealth(HealthCheck(f))
  /\ UNCHANGED <<now, account, meta, cpc, cresp, cerr, tpc, tsnap,
                 wrote, clientVars, hookVars>>

\* Reading knowbookResult.admin_user.api_key of a returned value:
\* "type_error" when the value is null or has no admin_user.
ReadApiKey(v) ==
  IF v \in {"null", "noadmin"} THEN "type_error"
  ELSE IF v = "full" THEN "key"
  ELSE "nokey"

\* signup, lines 51-69 and the catch block 73-87: createKnowbookOrganization
\* returns or throws.
SignupCreateOrg ==
  /\ spc = "createOrg"
  /\ \E f \in FetchOutcomes :
       LET r == CreateOrganizationWithAdmin(f) IN
       IF r.type = "throw"
         THEN /\ SignupRedirect(SignupCatch(r.typed))
              /\ Step(S, "api_error", <<>>)
       ELSE IF ReadApiKey(r.value) = "type_error"
         THEN /\ SignupRedirect(SignupCatch(FALSE))
              /\ Step(S, "malformed", <<>>)
       ELSE IF ReadApiKey(r.value) = "key"
         THEN /\ SignupContinue("store")
              /\ Step(S, "key", <<"store">>)
       ELSE /\ SignupRedirect("/auth/signup/success")
            /\ Step(S, "nokey", <<>>)
  /\ UNCHANGED <<now, account, meta, cpc, cresp, cerr, tpc, tsnap,
                 wrote, clientVars, hookVars>>

\* signup, lines 61-69 and 92: storeKnowbookApiKey returns.
SignupStore ==
  /\ spc = "store"
  /\ \E o \in UpdateOutcomes :
       /\ StoreKnowbookApiKey(S, o)
       /\ SignupRedirect("/auth/signup/success")
       /\ Step(S, o, <<>>)
  /\ UNCHANGED <<now, account, cpc, cresp, cerr, tpc, tsnap, clientVars, hookVars>>

Signup == SignupSignUp \/ SignupHealth \/ SignupCreateOrg \/ SignupStore

\* ------------------------------------------- POST /api/knowbook/connect
Answer(r, st, tg) ==
  /\ cpc' = [cpc EXCEPT ![r] = "done"]
  /\ cresp' = [cresp EXCEPT ![r] = Response(st, tg)]

Goto(r, pos) ==
  /\ cpc' = [cpc EXCEPT ![r] = pos]
  /\ cresp' = cresp

\* POST's catch block, lines 104-122.
ConnectCatch(r, e) ==
  /\ cerr' = [cerr EXCEPT ![r] = Caught(e)]
  /\ IF e.typed
       THEN Answer(r, ClampStatus(e.statusCode), "api_error")
       ELSE Answer(r, 500, "internal")

\* POST, lines 13-36: supabase.auth.getUser returns; the existing-key check
\* reads the user_metadata that came with the user.
\* Variant: no existing-key check.
ConnectAfterGetUserNoKeyCheck(r, u) ==
  IF u \in {"nouser", "error"}
    THEN /\ Answer(r, 401, "unauthorized")
         /\ calls' = [calls EXCEPT ![r] = <<"getUser">>]
    ELSE /\ Goto(r, "json")
         /\ calls' = [calls EXCEPT ![r] = <<"getUser", "json">>]

\* u is what getUser gave: "nouser", "error", or the user with
\* ("user_key") or without ("user_nokey") knowbook_api_key in user_metadata.
ConnectAfterGetUser(r, u) ==
  IF u \in {"nouser", "error"}
    THEN /\ Answer(r, 401, "unauthorized")
         /\ calls' = [calls EXCEPT ![r] = <<"getUser">>]
  ELSE IF u = "user_key"
    THEN /\ Answer(r, 400, "has_api_key")
         /\ calls' = [calls EXCEPT ![r] = <<"getUser">>]
  ELSE /\ Goto(r, "json")
       /\ calls' = [calls EXCEPT ![r] = <<"getUser", "json">>]

ConnectGetUser(r) ==
  /\ cpc[r] = "start"
  /\ \E o \in {"user", "nouser", "error"} :
       /\ o = "user" => account.exists
       /\ LET u == IF o # "user" THEN o
                   ELSE IF meta.knowbook_api_key # Absent THEN "user_key"
                   ELSE "user_nokey"
          IN /\ ConnectAfterGetUser(r, u)
             /\ outs' = [outs EXCEPT ![r] = <<u>>]
  /\ UNCHANGED <<now, account, meta, spc, sres, cerr, tpc, tsnap,
                 wrote, clientVars, hookVars>>

\* POST, lines 36-48: request.json() returns the body or rejects; then the
\* email check.
\* Variant: no email check.
ConnectAfterBodyNoEmailCheck(r, parsed) ==
  IF ~parsed
    THEN /\ ConnectCatch(r, UntypedError("syntax_error"))
         /\ Step(r, "rejected", <<>>)
    ELSE /\ Goto(r, "health")
         /\ Step(r, "parsed", <<"health">>)
         /\ cerr' = cerr

\* POST, lines 36-48, after request.json() settled.
ConnectAfterBody(r, parsed) ==
  IF ~parsed
    THEN /\ ConnectCatch(r, UntypedError("syntax_error"))
         /\ Step(r, "rejected", <<>>)
  ELSE IF ~account.email
    THEN /\ Answer(r, 400, "email_required")
         /\ Step(r, "parsed", <<>>)
         /\ cerr' = cerr
  ELSE /\ Goto(r, "health")
       /\ Step(r, "parsed", <<"health">>)
       /\ cerr' = cerr

ConnectBody(r) ==
  /\ cpc[r] = "json"
  /\ \E parsed \in BOOLEAN : ConnectAfterBody(r, parsed)
  /\ UNCHANGED <<now, account, meta, spc, sres, tpc, tsnap, wrote,
                 clientVars, hookVars>>

\* Variant: an unavailable Backend is asked a second time before the 503.
ConnectHealthRetries(r) ==
  /\ cpc[r] = "health"
  /\ \E f \in ProbeOutcomes :
       IF HealthCheck(f)
         THEN /\ Goto(r, "createOrg")
              /\ Step(r, "true", <<"org">>)
       ELSE IF "false" \in {outs[r][i] : i \in DOMAIN outs[r]}
         THEN /\ Answer(r, 503, "unavailable")
              /\ Step(r, "false", <<>>)
       ELSE /\ Goto(r, "health")
            /\ Step(r, "false", <<"health">>)
  /\ UNCHANGED <<now, account, meta, spc, sres, cerr, tpc, tsnap,
                 wrote, clientVars, hookVars>>

\* POST, lines 48-68: isKnowbookApiAvailable returns.
ConnectHealth(r) ==
  /\ cpc[r] = "health"
  /\ \E f \in ProbeOutcomes :
       IF HealthCheck(f)
         THEN /\ Goto(r, "createOrg")
              /\ Step(r, "true", <<"org">>)
         ELSE /\ Answer(r, 503, "unavailable")
              /\ Step(r, "false", <<>>)
  /\ UNCHANGED <<now, account, meta, spc, sres, cerr, tpc, tsnap,
                 wrote, clientVars, hookVars>>

\* POST, lines 62-77, 88-102 and the catch block 104-122:
\* createKnowbookOrganization returns or throws.
ConnectCreateOrg(r) ==
  /\ cpc[r] = "createOrg"
  /\ \E f \in FetchOutcomes :
       LET res == CreateOrganizationWithAdmin(f) IN
       IF res.type = "throw"
         THEN /\ ConnectCatch(r, res)
              /\ Step(r, "api_error", <<>>)
       ELSE IF ReadApiKey(res.value) = "type_error"
         THEN /\ ConnectCatch(r, UntypedError("type_error"))
              /\ Step(r, "malformed", <<>>)
       ELSE IF ReadApiKey(res.value) = "key"
         THEN /\ Goto(r, "store")
              /\ Step(r, "key", <<"store">>)
              /\ cerr' = cerr
       ELSE /\ Answer(r, 200, "success")
            /\ Step(r, "nokey", <<>>)
            /\ cerr' = cerr
  /\ UNCHANGED <<now, account, meta, spc, sres, tpc, tsnap, wrote,
                 clientVars, hookVars>>

\* POST, lines 72-102: storeKnowbookApiKey returns.
ConnectStore(r) ==
  /\ cpc[r] = "store"
  /\ \E o \in UpdateOutcomes :
       /\ StoreKnowbookApiKey(r, o)
       /\ Step(r, o, <<>>)
       /\ IF StoreResult(o).success
            THEN Answer(r, 200, "success")
            ELSE Answer(r, 500, "store_failed")
  /\ UNCHANGED <<now, account, spc, sres, cerr, tpc, tsnap, clientVars, hookVars>>

Connect ==
  \E r \in Requests :
    \/ ConnectGetUser(r)
    \/ ConnectBody(r)
    \/ ConnectHealth(r)
    \/ ConnectCreateOrg(r)
    \/ ConnectStore(r)

\* ------------------------------------------------- updateApiKeyValidation
\* Lines 89-103: auth.admin.getUserById returns (or throws).
TouchRead ==
  /\ tpc = "start"
  /\ \E o \in {"user", "error", "throw"} :
       /\ o = "user" => account.exists
       /\ IF o = "user"
            THEN /\ tpc' = "update"
                 /\ tsnap' = meta
                 /\ Step(T, o, <<"getUserById", "updateUserById">>)
            ELSE /\ tpc' = "done"
                 /\ tsnap' = tsnap
                 /\ Step(T, o, <<"getUserById">>)
  /\ UNCHANGED <<now, account, meta, spc, sres, cpc, cresp, cerr,
                 wrote, clientVars, hookVars>>

\* The keys a metadata object read from the provider has: absent values are
\* not properties of the object, so the spread does not copy them.
PresentKeys(m) == {k \in DOMAIN m : m[k] # UnsetValue(k)}

\* Variant: the creation time is stamped as well.
TouchMetadataRestamps(cur, t) ==
  [k \in PresentKeys(cur) \cup {"api_key_last_validated"} |->
     IF k \in {"api_key_last_validated", "api_key_created_at"} THEN t ELSE cur[k]]

\* updatedMetadata = {...currentMetadata, api_key_last_validated: now}
TouchMetadata(cur, t) ==
  [k \in PresentKeys(cur) \cup {"api_key_last_validated"} |->
     IF k = "api_key_last_validated" THEN t ELSE cur[k]]

\* Lines 105-114: auth.admin.updateUserById returns (or throws).
TouchUpdate ==
  /\ tpc = "update"
  /\ \E o \in UpdateOutcomes :
       /\ IF o = "ok"
            THEN meta' = UpdateUserMetadata(meta, TouchMetadata(tsnap, now))
            ELSE meta' = meta
       /\ Step(T, o, <<>>)
  /\ tpc' = "done"
  /\ tsnap' = EmptyMeta
  /\ UNCHANGED <<now, account, spc, sres, cpc, cresp, cerr, wrote, clientVars, hookVars>>

Touch == TouchRead \/ TouchUpdate

Next == Tick \/ Signup \/ Connect \/ Touch

Spec == Init /\ [][Next]_vars

\* ------------------------------------------------- Backend API client alone
\* Statuses for the client on its own: the edges of the success range and
\* of the 400..599 range, and some inside.
ClientStatuses == {199, 200, 204, 299, 300, 302, 399, 400, 404, 499, 500,
                   503, 599, 600}

InitClient ==
  /\ InitFlow
  /\ cin \in FetchOutcomesOver(ClientStatuses)
  /\ cout = NoResult
  /\ InitProbeIdle
  /\ InitStaleIdle
  /\ InitRequestIdle
  /\ InitEndpointIdle
  /\ InitHookIdle

\* createOrganizationWithAdmin is called on a transport that behaves as cin.
ClientCreateOrganization ==
  /\ cout = NoResult
  /\ cout' = CreateOrganizationWithAdmin(cin)
  /\ UNCHANGED <<cin, pin, pop, pout, rin, rout, reqVars, endVars,
                 flowVars, hookVars>>

NextClient == ClientCreateOrganization

SpecClient == InitClient /\ [][NextClient]_vars

\* ------------------------------------------------------- the probes alone
InitProbe ==
  /\ InitFlow
  /\ cin = NoFetch
  /\ cout = NoResult
  /\ pin \in ProbeOutcomesOver(ClientStatuses)
  /\ pop = NoCall
  /\ pout = NoResult
  /\ InitStaleIdle
  /\ InitRequestIdle
  /\ InitEndpointIdle
  /\ InitHookIdle

\* healthCheck() is called on a transport that behaves as pin.
ProbeHealthCheck ==
  /\ pop = NoCall
  /\ pop' = [name |-> "healthCheck", apiKey |-> Absent]
  /\ pout' = HealthCheckResult(pin)
  /\ UNCHANGED <<pin, cin, cout, rin, rout, reqVars, endVars,
                 flowVars, hookVars>>

\* validateApiKey(apiKey) is called on a transport that behaves as pin.
ProbeValidateApiKey ==
  /\ pop = NoCall
  /\ \E p \in Issuers :
       /\ pop' = [name |-> "validateApiKey", apiKey |-> ApiKeyOf(p)]
       /\ pout' = ValidateApiKeyResult(ApiKeyOf(p), pin)
  /\ UNCHANGED <<pin, cin, cout, rin, rout, reqVars, endVars,
                 flowVars, hookVars>>

NextProbe == ProbeHealthCheck \/ ProbeValidateApiKey

SpecProbe == InitProbe /\ [][NextProbe]_vars

\* ------------------------------------------------ shouldRefreshApiKey alone
\* Clock readings and validation times around the 24 h window (ms).
StaleTimes ==
  LET w == RefreshHours * HoursMs IN
  {0, 1, 1000, w - 1000, w, w + 1, w + 1000, w + 1001, 2 * w + 1000}

\* Records handed to shouldRefreshApiKey: with or without a key, validated
\* at one of the times or never.
StaleRecords ==
  {[EmptyMeta EXCEPT !.api_key_last_validated = lv] :
     lv \in StaleTimes \cup {NoTime}}
  \cup {[StoreMetadata(ApiKeyOf(S), AdminIdOf(S), OrgIdOf(S), 0)
          @@ [full_name |-> Absent] EXCEPT !.api_key_last_validated = lv] :
          lv \in StaleTimes \cup {NoTime}}

InitStale ==
  /\ InitFlow
  /\ cin = NoFetch
  /\ cout = NoResult
  /\ InitProbeIdle
  /\ rin \in [metadata : StaleRecords, time : StaleTimes]
  /\ rout = "none"
  /\ InitRequestIdle
  /\ InitEndpointIdle
  /\ InitHookIdle

\* shouldRefreshApiKey(metadata) is called when the clock shows rin.time.
StaleCall ==
  /\ rout = "none"
  /\ rout' = IF ShouldRefreshApiKey(rin.metadata, rin.time) THEN "true" ELSE "false"
  /\ UNCHANGED <<rin, cin, cout, pin, pop, pout, reqVars, endVars,
                 flowVars, hookVars>>

NextStale == StaleCall

SpecStale == InitStale /\ [][NextStale]_vars

\* ------------------------------------------- connection-status consumer
\* The account as the consumer finds it: signed up, with or without the
\* Credential Record that signup stores at time 0.
HookRecords ==
  LET named == [EmptyMeta EXCEPT !.full_name = <<"name">>] IN
  {named,
   UpdateUserMetadata(named,
     StoreMetadata(ApiKeyOf(S), AdminIdOf(S), OrgIdOf(S), 0))}

\* The component mounts in a browser with or without a session; the
\* server-side flows are not running.
InitHook ==
  /\ now = 0
  /\ account = [exists |-> TRUE, email |-> TRUE]
  /\ meta \in HookRecords
  /\ spc = "start"
  /\ sres = "none"
  /\ cpc = [r \in Requests |-> "start"]
  /\ cresp = [r \in Requests |-> NoResponse]
  /\ cerr = [r \in Requests |-> NoError]
  /\ tpc = "start"
  /\ tsnap = EmptyMeta
  /\ calls = [p \in Procs |-> <<>>]
  /\ outs = [p \in Procs |-> <<>>]
  /\ wrote = <<>>
  /\ cin = NoFetch
  /\ cout = NoResult
  /\ InitProbeIdle
  /\ InitStaleIdle
  /\ InitRequestIdle
  /\ InitEndpointIdle
  /\ session \in BOOLEAN
  /\ huser = session
  /\ InitHookProcs

Mounted == hpc[Mount] # "idle"

\* p is the next process of its kind to start.
IsNext(p) ==
  /\ hpc[p] = "idle"
  /\ \A j \in 1..(p[2] - 1) : hpc[<<p[1], j>>] # "idle"

\* loadKnowbookMetadata up to its first await, run l, with user u in its
\* closure.
LoadBegin(l, u) ==
  /\ IF ~u
       THEN /\ hs' = SetNoUser(hs)
            /\ hpc' = [hpc EXCEPT ![l] = "done"]
            /\ hcalls' = hcalls
       ELSE /\ hs' = SetLoading(hs)
            /\ hpc' = [hpc EXCEPT ![l] = "getMetadata"]
            /\ hcalls' = [hcalls EXCEPT ![l] = <<"getKnowbookMetadata">>]
  /\ UNCHANGED <<hmd, hat, hkey, hret>>

\* The mount effect runs loadKnowbookMetadata.
HookMount ==
  /\ hpc[Mount] = "idle"
  /\ LoadBegin(Mount, huser)
  /\ hlast' = <<"mount", Mount>>
  /\ UNCHANGED <<session, huser, hquiet, flowVars, clientVars>>

\* The UserContext publishes the session's user (or none): the callback is
\* rebuilt and the effect runs loadKnowbookMetadata again.
UserChange(l) ==
  /\ Mounted
  /\ IsNext(l)
  /\ huser' = session
  /\ LoadBegin(l, session)
  /\ hlast' = <<"userChange", l>>
  /\ hquiet' = FALSE
  /\ UNCHANGED <<session, flowVars, clientVars>>

\* loadKnowbookMetadata, run l: getKnowbookMetadata returns (null when the
\* auth client has no user or getUser fails), up to the next await.
LoadMetadata(l) ==
  /\ hpc[l] = "getMetadata"
  /\ \E o \in {"user", "error"} :
       LET md == IF session /\ o = "user"
                   THEN <<KnowbookMetadataOf(meta)>> ELSE NullMetadata
       IN
       /\ hmd' = [hmd EXCEPT ![l] = md]
       /\ hat' = [hat EXCEPT ![l] = now]
       /\ IF HasApiKey(md)
            THEN IF LoadProbes(md, now)
                   THEN /\ hs' = SetKeyLoaded(hs, md)
                        /\ hpc' = [hpc EXCEPT ![l] = "validate"]
                        /\ hkey' = [hkey EXCEPT ![l] = md[1].knowbook_api_key]
                        /\ hcalls' = [hcalls EXCEPT ![l] = Append(@, "validateApiKey")]
                   ELSE /\ hs' = SetValidated(SetKeyLoaded(hs, md))
                        /\ hpc' = [hpc EXCEPT ![l] = "done"]
                        /\ UNCHANGED <<hkey, hcalls>>
            ELSE /\ hs' = SetNoKey(hs, md)
                 /\ hpc' = [hpc EXCEPT ![l] = "done"]
                 /\ UNCHANGED <<hkey, hcalls>>
  /\ hlast' = <<"loadMetadata", l>>
  /\ UNCHANGED <<session, huser, hret, hquiet, flowVars, clientVars>>

\* validateApiKeyInternal: the probe returns to process p.
ProbeReturn(p) ==
  /\ hpc[p] = "validate"
  /\ \E f \in ProbeOutcomes :
       /\ hs' = SetProbeResult(hs, ValidateApiKey(f))
       /\ hret' = [hret EXCEPT ![p] = IF ValidateApiKey(f) THEN "true" ELSE "false"]
       /\ meta' = RecordAfterProbe(meta, ValidateApiKey(f), now)
  /\ hpc' = [hpc EXCEPT ![p] = "done"]
  /\ UNCHANGED <<session, huser, hmd, hat, hkey, hcalls, clientVars,
                 now, account, spc, sres, cpc, cresp, cerr, tpc, tsnap,
                 calls, outs, wrote>>

\* loadKnowbookMetadata, run l: validateApiKeyInternal returns.
LoadValidate(l) ==
  /\ ProbeReturn(l)
  /\ hlast' = <<"loadValidate", l>>
  /\ hquiet' = hquiet

\* The hook's validateApiKey, call v, up to its await; st is the state the
\* caller leaves behind before calling.
HookValidateApiKey(v, st) ==
  /\ Mounted
  /\ IsNext(v)
  /\ hs' = st
  /\ IF hs.apiKey = Absent
       THEN /\ hpc' = [hpc EXCEPT ![v] = "done"]
            /\ hret' = [hret EXCEPT ![v] = "false"]
            /\ UNCHANGED <<hkey, hcalls>>
       ELSE /\ hpc' = [hpc EXCEPT ![v] = "validate"]
            /\ hkey' = [hkey EXCEPT ![v] = hs.apiKey]
            /\ hcalls' = [hcalls EXCEPT ![v] = <<"validateApiKey">>]
            /\ hret' = hret
  /\ hquiet' = FALSE
  /\ UNCHANGED <<session, huser, hmd, hat, flowVars, clientVars>>

\* A component calls validateApiKey() of the hook.
ValidateCall(v) ==
  /\ HookValidateApiKey(v, hs)
  /\ hlast' = <<"validateApiKey", v>>

\* KnowbookStatus: the user presses "Validate Connection".
HandleValidateKey(v) ==
  /\ ValidateButtonEnabled(hs)
  /\ HookValidateApiKey(v, SetErrorCleared(hs))
  /\ hlast' = <<"handleValidateKey", v>>

\* validateApiKey, call v: validateApiKeyInternal returns.
ValidateReturn(v) ==
  /\ ProbeReturn(v)
  /\ hlast' = <<"validateReturn", v>>
  /\ hquiet' = FALSE

\* KnowbookStatus: the user presses "Clear Error".
ClearError ==
  /\ Mounted
  /\ ClearErrorButtonShown(hs)
  /\ hs' = SetErrorCleared(hs)
  /\ hlast' = <<"clearError", Hook>>
  /\ hquiet' = FALSE
  /\ UNCHANGED <<session, huser, hpc, hmd, hat, hkey, hret, hcalls,
                 flowVars, clientVars>>

\* onAuthStateChange: SIGNED_IN with the session's user.
AuthSignedIn ==
  /\ Mounted
  /\ session' = TRUE
  /\ hs' = SetFromAuthState(hs, <<KnowbookMetadataOf(meta)>>, now)
  /\ hlast' = <<"SIGNED_IN", Hook>>
  /\ hquiet' = FALSE
  /\ UNCHANGED <<huser, hpc, hmd, hat, hkey, hret, hcalls, flowVars, clientVars>>

\* onAuthStateChange: SIGNED_OUT.
AuthSignedOut ==
  /\ Mounted
  /\ session
  /\ session' = FALSE
  /\ hs' = SetFromAuthState(hs, NullMetadata, now)
  /\ hlast' = <<"SIGNED_OUT", Hook>>
  /\ hquiet' = FALSE
  /\ UNCHANGED <<huser, hpc, hmd, hat, hkey, hret, hcalls, flowVars, clientVars>>

NextHook ==
  \/ Tick
  \/ HookMount
  \/ \E l \in Loads : UserChange(l) \/ LoadMetadata(l) \/ LoadValidate(l)
  \/ \E v \in Validates :
       ValidateCall(v) \/ HandleValidateKey(v) \/ ValidateReturn(v)
  \/ ClearError
  \/ AuthSignedIn
  \/ AuthSignedOut

SpecHook == InitHook /\ [][NextHook]_vars

\* --------------------------------- the organization-signup request alone
InitRequest ==
  /\ InitFlow
  /\ cin = NoFetch
  /\ cout = NoResult
  /\ InitProbeIdle
  /\ InitStaleIdle
  /\ InitHookIdle
  /\ InitEndpointIdle
  /\ qin \in SignupInputs
  /\ qout = NoRequest

\* signup reaches createKnowbookOrganization with input qin and the client
\* builds the request body.
BuildSignupRequest ==
  /\ qout = NoRequest
  /\ qout' = ClientRequestBody(SignupData(qin))
  /\ UNCHANGED <<qin, cin, cout, pin, pop, pout, rin, rout, endVars,
                 flowVars, hookVars>>

NextRequest == BuildSignupRequest

SpecRequest == InitRequest /\ [][NextRequest]_vars

\* ------------------------------------- the connect endpoint's responses
\* The account's user_metadata as getUser returns it to a handler: with the
\* Credential Record of issuer e.issuer holding the key e.key, or without.
EndpointMetadata(e) ==
  LET named == [EmptyMeta EXCEPT !.full_name = <<"name">>] IN
  IF e.stored
    THEN UpdateUserMetadata(named,
           StoreMetadata(e.key, AdminIdOf(e.issuer), OrgIdOf(e.issuer), 0))
    ELSE named

\* The OrganizationSignupResponse the Backend API returns to issuer p when
\* it issues the key k.
BackendResult(p, k) ==
  [organization |-> [id |-> OrgIdOf(p), name |-> "org_name",
                     slug |-> "org_slug", plan |-> "free"],
   admin_user |-> [id |-> AdminIdOf(p), name |-> "admin_name",
                   email |-> "admin_email", api_key |-> k],
   message |-> "created"]

\* Variant: the status response carries the metadata also when not connected.
GetBodyAlwaysMetadata(m) ==
  [connected |-> m.knowbook_api_key # Absent,
   metadata |-> <<[knowbook_user_id |-> m.knowbook_user_id,
                   knowbook_organization_id |-> m.knowbook_organization_id,
                   api_key_created_at |-> m.api_key_created_at,
                   api_key_last_validated |-> m.api_key_last_validated]>>]

\* GET, lines 138-149: the body of the status response (metadata: <<>> is
\* null, <<md>> an object).
GetBody(m) ==
  LET hasApiKey == m.knowbook_api_key # Absent IN
  [connected |-> hasApiKey,
   metadata |-> IF hasApiKey
                  THEN <<[knowbook_user_id |-> m.knowbook_user_id,
                          knowbook_organization_id |-> m.knowbook_organization_id,
                          api_key_created_at |-> m.api_key_created_at,
                          api_key_last_validated |-> m.api_key_last_validated]>>
                  ELSE <<>>]

\* GET, lines 126-149: the handler, given what getUser returned.
GetHandler(kind, m) ==
  IF kind # "user"
    THEN [status |-> 401, body |-> [error |-> "Unauthorized"]]
    ELSE [status |-> 200, body |-> GetBody(m)]

\* Variant: the success response passes the admin user's api key on.
PostSuccessBodyWithKey(res) ==
  [success |-> TRUE,
   organization |-> [id |-> res.organization.id, name |-> res.organization.name,
                     slug |-> res.organization.slug, plan |-> res.organization.plan],
   user |-> [id |-> res.admin_user.id, name |-> res.admin_user.name,
             email |-> res.admin_user.email, api_key |-> res.admin_user.api_key],
   message |-> "Successfully connected to Knowbook!"]

\* POST, lines 88-102: the body of the success response.
PostSuccessBody(res) ==
  [success |-> TRUE,
   organization |-> [id |-> res.organization.id, name |-> res.organization.name,
                     slug |-> res.organization.slug, plan |-> res.organization.plan],
   user |-> [id |-> res.admin_user.id, name |-> res.admin_user.name,
             email |-> res.admin_user.email],
   message |-> "Successfully connected to Knowbook!"]

\* POST: the response built at the exit tg, given the Backend API's result
\* res (success) or the error err caught (api_error).
PostResponse(tg, res, err) ==
  CASE tg = "unauthorized" ->
         [status |-> 401, body |-> [error |-> "Unauthorized"]]
    [] tg = "has_api_key" ->
         [status |-> 400, body |-> [error |-> "User already has a Knowbook API key",
                                    hasApiKey |-> TRUE]]
    [] tg = "email_required" ->
         [status |-> 400, body |-> [error |-> "User email is required"]]
    [] tg = "unavailable" ->
         [status |-> 503, body |-> [error |-> "Knowbook API is currently unavailable. Please try again later."]]
    [] tg = "store_failed" ->
         [status |-> 500, body |-> [error |-> "Failed to store API key in user profile"]]
    [] tg = "api_error" ->
         [status |-> ClampStatus(err.statusCode),
          body |-> [error |-> err.message, details |-> err.details,
                    statusCode |-> err.statusCode]]
    [] tg = "internal" ->
         [status |-> 500, body |-> [error |-> "Internal server error"]]
    [] tg = "success" ->
         [status |-> 200, body |-> PostSuccessBody(res)]

PostTags == {"unauthorized", "has_api_key", "email_required", "unavailable",
             "store_failed", "api_error", "internal", "success"}

\* What a handler has in hand when it answers: the getUser outcome, the
\* stored record if any, and for POST the exit taken with the Backend
\* API's answer.  key is the value of the api key stored or issued.
EndpointInputs ==
  {[handler |-> "GET", tag |-> "status", kind |-> k, stored |-> st,
    issuer |-> p, key |-> ApiKeyOf(q), fetch |-> NoFetch] :
     k \in {"user", "nouser", "error"}, st \in BOOLEAN,
     p \in Issuers, q \in Issuers}
  \cup
  {[handler |-> "POST", tag |-> tg, kind |-> "user", stored |-> st,
    issuer |-> p, key |-> ApiKeyOf(q), fetch |-> NoFetch] :
     tg \in PostTags \ {"unauthorized", "api_error"}, st \in BOOLEAN,
     p \in Requests, q \in Issuers}
  \cup
  {[handler |-> "POST", tag |-> "unauthorized", kind |-> k, stored |-> FALSE,
    issuer |-> p, key |-> ApiKeyOf(q), fetch |-> NoFetch] :
     k \in {"nouser", "error"}, p \in Requests, q \in Issuers}
  \cup
  {[handler |-> "POST", tag |-> "api_error", kind |-> "user", stored |-> FALSE,
    issuer |-> p, key |-> ApiKeyOf(q), fetch |-> f] :
     p \in Requests, q \in Issuers,
     f \in {g \in FetchOutcomes : CreateOrganizationWithAdmin(g).type = "throw"}}

\* The response of the handler for the input e.
EndpointResponse(e) ==
  IF e.handler = "GET"
    THEN GetHandler(e.kind, EndpointMetadata(e))
    ELSE PostResponse(e.tag, BackendResult(e.issuer, e.key),
                      CreateOrganizationWithAdmin(e.fetch))

InitEndpoint ==
  /\ InitFlow
  /\ cin = NoFetch
  /\ cout = NoResult
  /\ InitProbeIdle
  /\ InitStaleIdle
  /\ InitRequestIdle
  /\ InitHookIdle
  /\ ein \in EndpointInputs
  /\ eout = NoEndpointResponse

\* GET /api/knowbook/connect answers.
EndpointGet ==
  /\ ein.handler = "GET"
  /\ eout = NoEndpointResponse
  /\ eout' = EndpointResponse(ein)
  /\ UNCHANGED <<ein, cin, cout, pin, pop, pout, rin, rout, reqVars,
                 flowVars, hookVars>>

\* POST /api/knowbook/connect answers at the exit ein.tag.
EndpointPost ==
  /\ ein.handler = "POST"
  /\ eout = NoEndpointResponse
  /\ eout' = EndpointResponse(ein)
  /\ UNCHANGED <<ein, cin, cout, pin, pop, pout, rin, rout, reqVars,
                 flowVars, hookVars>>

NextEndpoint == EndpointGet \/ EndpointPost

SpecEndpoint == InitEndpoint /\ [][NextEndpoint]_vars

\* ================================================================ properties
Range(q) == {q[i] : i \in DOMAIN q}

\* What the i-th call of process p returned ("none" while it has not).
Out(p, i) == IF Len(outs[p]) >= i THEN outs[p][i] ELSE "none"

SuccessPage == "/auth/signup/success"

\* C1: once signUp has created the account, a finished signup run has
\* redirected to /auth/signup/success, whatever the health check, the
\* organization creation and the credential store did; it has neither
\* redirected to an error page nor thrown.
C1_SignupAlwaysConfirms ==
  (Out(S, 1) = "user" /\ spc = "done") =>
     /\ sres = SuccessPage
     /\ \/ Out(S, 2) = "false"
        \/ Out(S, 3) \in {"api_error", "malformed", "nokey"}
        \/ Out(S, 4) \in UpdateOutcomes

\* The organization was created with a key but the credential store failed.
C1_Witness ==
  /\ spc = "done"
  /\ outs[S] = <<"user", "true", "key", "error">>
  /\ sres = SuccessPage
  /\ meta.knowbook_api_key = Absent

\* C2: when signUp returns an error, the run redirects to the signup page
\* with the error parameter and has made no other call: no health check, no
\* organization-signup request, no credential write.
C2_AuthErrorAborts ==
  Out(S, 1) = "error" =>
     /\ spc = "done"
     /\ sres = "/auth/signup?error=supabase"
     /\ calls[S] = <<"signUp">>
     /\ S \notin Range(wrote)

\* A duplicate email: the account existed before the signup run.
C2_Witness ==
  /\ Out(S, 1) = "error"
  /\ account.exists
  /\ spc = "done"
  /\ meta.knowbook_api_key = Absent

\* C3: when the health check of a signup run returns false, no
\* organization-signup request is sent, no credential is written and the
\* run redirects to the confirmation page.
C3_HealthFalseSkipsOrganization ==
  Out(S, 2) = "false" =>
     /\ spc = "done"
     /\ sres = SuccessPage
     /\ calls[S] = <<"signUp", "health">>
     /\ S \notin Range(wrote)
     /\ (wrote = <<>> => meta.knowbook_api_key = Absent)

C3_Witness ==
  /\ outs[S] = <<"user", "false">>
  /\ sres = SuccessPage
  /\ meta.knowbook_api_key = Absent

\* C4: a POST whose user already has knowbook_api_key in user_metadata
\* answers 400 with hasApiKey and has called nothing but getUser.
C4_ExistingKeyRefused ==
  \A r \in Requests :
    Out(r, 1) = "user_key" =>
       /\ cpc[r] = "done"
       /\ cresp[r] = Response(400, "has_api_key")
       /\ calls[r] = <<"getUser">>
       /\ r \notin Range(wrote)

C4_Witness ==
  \E r \in Requests :
    /\ Out(r, 1) = "user_key"
    /\ cresp[r].status = 400
    /\ meta.knowbook_api_key # Absent

\* C5: a credential write that takes effect replaces whatever key is
\* stored: after the write of issuer p the record holds the key issued to p.
\* So when two requests both passed the existing-key check, the later write
\* replaces the key of the earlier one.
C5_LaterWriteReplaces ==
  [][\A p \in Issuers :
       wrote' = Append(wrote, p) =>
         /\ meta'.knowbook_api_key = ApiKeyOf(p)
         /\ meta'.knowbook_user_id = AdminIdOf(p)
         /\ meta'.knowbook_organization_id = OrgIdOf(p)]_vars

\* Both requests passed the check, both sent the organization-signup
\* request, both wrote, and the record holds the later one's key.
C5_Witness ==
  \E r1, r2 \in Requests :
    /\ r1 # r2
    /\ Out(r1, 1) = "user_nokey" /\ Out(r2, 1) = "user_nokey"
    /\ "org" \in Range(calls[r1]) /\ "org" \in Range(calls[r2])
    /\ wrote = <<r1, r2>>
    /\ cresp[r1].status = 200 /\ cresp[r2].status = 200
    /\ meta.knowbook_api_key = ApiKeyOf(r2)

\* C6: once an api key is stored it is never replaced by another key and
\* never removed.
C6_KeyWrittenOnce ==
  [][meta.knowbook_api_key # Absent =>
       meta'.knowbook_api_key = meta.knowbook_api_key]_vars

Authenticated(r) == Out(r, 1) \in {"user_key", "user_nokey"}
NoEffect(r) ==
  /\ "org" \notin Range(calls[r])
  /\ "store" \notin Range(calls[r])
  /\ r \notin Range(wrote)

C8_StoreFailureIs500 ==
  \A r \in Requests :
    (Out(r, 4) = "key" /\ Out(r, 5) \in {"error", "throw"}) =>
       /\ cpc[r] = "done"
       /\ cresp[r] = Response(500, "store_failed")
       /\ r \notin Range(wrote)
       /\ meta.knowbook_api_key # ApiKeyOf(r)
       /\ (wrote = <<>> => meta.knowbook_api_key = Absent)

C8_Witness ==
  \E r \in Requests :
    /\ outs[r] = <<"user_nokey", "parsed", "true", "key", "throw">>
    /\ cresp[r].status = 500
    /\ meta.knowbook_api_key = Absent

\* C9: a typed API error with status code s answers s when 400 <= s < 600
\* and 500 otherwise; any other exception answers 500; every answer of the
\* endpoint is 200 or within 400..599.
C9_StatusClamped ==
  \A r \in Requests :
    cpc[r] = "done" =>
      /\ (cerr[r].message = "thrown" /\ cerr[r].typed) =>
            cresp[r].status = (IF cerr[r].statusCode >= 400 /\ cerr[r].statusCode < 600
                                 THEN cerr[r].statusCode ELSE 500)
      /\ (cerr[r].message = "thrown" /\ ~cerr[r].typed) => cresp[r].status = 500
      /\ cresp[r].status = 200 \/ (cresp[r].status >= 400 /\ cresp[r].status <= 599)

\* One request passed a 404 through, another had 600 replaced by 500.
C9_Witness ==
  \E r1, r2 \in Requests :
    /\ cerr[r1].typed /\ cerr[r1].statusCode = 404 /\ cresp[r1].status = 404
    /\ cerr[r2].typed /\ cerr[r2].statusCode = 600 /\ cresp[r2].status = 500

\* C10: createOrganizationWithAdmin returns only for a success status whose
\* body parses; for every non-success status it throws the typed error with
\* that status; for a transport exception it throws the typed error with
\* status 500 and the exception's message; it never throws anything untyped.
C10_TypedErrorCarriesStatus ==
  cout.type # "none" =>
    /\ cout.type = "return" <=>
         (cin.kind = "response" /\ ResponseOk(cin.status) /\ cin.body # "unparsable")
    /\ cout.type = "return" => cout.value = cin.body
    /\ cout.type = "throw" => cout.typed
    /\ (cin.kind = "response" /\ ~ResponseOk(cin.status)) =>
         /\ cout.type = "throw"
         /\ cout.statusCode = cin.status
         /\ cin.body = "err_detail" => cout.details = "server_detail"
    /\ cin.kind = "reject" =>
         /\ cout.type = "throw"
         /\ cout.statusCode = 500
         /\ cout.details = "fetch_failed"

\* C11: validateApiKey and healthCheck never throw; they return true exactly
\* when the fetch resolved to a response with a success status (200..299),
\* and false for every other status and for a rejected fetch (the health
\* check's timeout abort included).
C11_ProbesNeverThrow ==
  pop.name \in {"validateApiKey", "healthCheck"} =>
    /\ pout.type = "return"
    /\ pout.value \in {"true", "false"}
    /\ pout.value = "true" <=>
         (pin.kind = "response" /\ pin.status >= 200 /\ pin.status <= 299)

C11_Witness ==
  /\ pop.name = "healthCheck"
  /\ pin.kind = "reject"
  /\ pout.type = "return" /\ pout.value = "false"

\* C12: shouldRefreshApiKey is true exactly when the record has no
\* last-validated time or that time is strictly more than 24 hours before
\* the clock reading: stale at 24 h + 1 s, not stale at 23 h 59 min 59 s nor
\* at exactly 24 h.
C12_StaleAfter24Hours ==
  rout # "none" =>
    LET lv == rin.metadata.api_key_last_validated IN
    /\ rout = "true" <=> (lv = NoTime \/ rin.time - lv > 24 * 3600000)
    /\ (lv # NoTime /\ rin.time - lv = 24 * 3600000 + 1000) => rout = "true"
    /\ (lv # NoTime /\ rin.time - lv = 24 * 3600000 - 1000) => rout = "false"
    /\ (lv # NoTime /\ rin.time - lv = 24 * 3600000) => rout = "false"

C12_Witness ==
  /\ rout = "false"
  /\ rin.metadata.api_key_last_validated = 1000
  /\ rin.time = 24 * 3600000 + 1000

\* C13: when only the mount-time load has run and getKnowbookMetadata gave it
\* a record with an api key: if the record is not stale the load ends
\* connected (key and metadata held, validated, no error, not loading) having
\* made no validateApiKey call; if it is stale the load calls validateApiKey
\* once with that key and ends connected when the probe returns true, and
\* not validated with the error 'Invalid Knowbook API key' when it returns
\* false.
C13_MountWithStoredKey ==
  (hquiet /\ hpc[Mount] \in {"validate", "done"} /\ HasApiKey(hmd[Mount])) =>
    LET md == hmd[Mount][1]
        lv == md.api_key_last_validated
        stale == lv = NoTime \/ hat[Mount] - lv > 24 * 3600000
        held == /\ hs.apiKey = md.knowbook_api_key
                /\ hs.metadata = hmd[Mount]
                /\ ~hs.isLoading
    IN
    /\ ~stale =>
         /\ hpc[Mount] = "done"
         /\ hcalls[Mount] = <<"getKnowbookMetadata">>
         /\ held /\ hs.isValidated /\ hs.error = "none"
    /\ stale =>
         /\ hcalls[Mount] = <<"getKnowbookMetadata", "validateApiKey">>
         /\ hkey[Mount] = md.knowbook_api_key
         /\ (hpc[Mount] = "done" /\ hret[Mount] = "true") =>
              (held /\ hs.isValidated /\ hs.error = "none")
         /\ (hpc[Mount] = "done" /\ hret[Mount] = "false") =>
              /\ held /\ ~hs.isValidated
              /\ hs.error = "Invalid Knowbook API key"

C13_Witness ==
  /\ hquiet
  /\ hpc[Mount] = "done"
  /\ hcalls[Mount] = <<"getKnowbookMetadata", "validateApiKey">>
  /\ hret[Mount] = "false"
  /\ hs.apiKey = ApiKeyOf(S)
  /\ hs.error = "Invalid Knowbook API key"

\* C14: when only the mount-time load has run, for a signed-in user whose
\* metadata holds no api key, the load ends with no key, not loading and no
\* error set, and the card shows 'Not Connected'.
C14_MountWithoutKey ==
  (/\ hquiet /\ hpc[Mount] = "done"
   /\ hmd[Mount] # NullMetadata /\ ~HasApiKey(hmd[Mount])) =>
    /\ hs.apiKey = Absent
    /\ ~hs.isLoading
    /\ hs.error = "none"
    /\ StatusBadge(hs) = "Not Connected"

\* C15: right after a SIGNED_OUT event the hook state is cleared: no api
\* key, no metadata, not validated, and neither an error nor a loading flag
\* remains from before the event.
C15_SignOutClearsAll ==
  hlast[1] = "SIGNED_OUT" =>
    /\ hs.apiKey = Absent
    /\ hs.metadata = NullMetadata
    /\ ~hs.isValidated
    /\ hs.error = "none"
    /\ ~hs.isLoading

\* C16: right after a SIGNED_IN event the hook is where a mount-time load
\* brings it: with a stored key it is connected or a validateApiKey probe of
\* that key is under way, without one it holds no key and is not validated.
C16_SignInReloads ==
  hlast[1] = "SIGNED_IN" =>
    IF meta.knowbook_api_key # Absent
      THEN /\ hs.apiKey = meta.knowbook_api_key
           /\ \/ hs.isValidated
              \/ \E p \in HookProcs :
                   hpc[p] = "validate" /\ hkey[p] = meta.knowbook_api_key
      ELSE hs.apiKey = Absent /\ ~hs.isValidated

\* C17: a call of the hook's validateApiKey with no key held returns false,
\* calls nothing and leaves the state as it is; with a key held it probes
\* that key with validateApiKey, and when the probe returns true the state
\* becomes validated with the error cleared, when it returns false not
\* validated with the error 'Invalid Knowbook API key'; nothing else of the
\* state changes.
C17_ManualValidate ==
  [][\A v \in Validates :
       /\ (hpc[v] = "idle" /\ hpc'[v] # "idle" /\ hs.apiKey = Absent) =>
            /\ hpc'[v] = "done" /\ hret'[v] = "false"
            /\ hcalls'[v] = <<>>
            /\ hs' = hs
       /\ (hpc[v] = "idle" /\ hpc'[v] # "idle" /\ hs.apiKey # Absent) =>
            /\ hpc'[v] = "validate"
            /\ hcalls'[v] = <<"validateApiKey">>
            /\ hkey'[v] = hs.apiKey
       /\ (hpc[v] = "validate" /\ hpc'[v] = "done") =>
            /\ hret'[v] \in {"true", "false"}
            /\ hret'[v] = "true" =>
                 hs' = [hs EXCEPT !.isValidated = TRUE, !.error = "none"]
            /\ hret'[v] = "false" =>
                 hs' = [hs EXCEPT !.isValidated = FALSE,
                                  !.error = "Invalid Knowbook API key"]
    ]_vars

C17_Witness ==
  \E v \in Validates :
    /\ hlast = <<"validateReturn", v>>
    /\ hcalls[v] = <<"validateApiKey">>
    /\ hret[v] = "true"
    /\ hs.apiKey # Absent /\ hs.isValidated /\ hs.error = "none"

\* C18: in every state of the mounted consumer with a user that is neither
\* loading nor connected, an action that goes to the Backend API again
\* (connect or validate) is enabled.
C18_RetryAlwaysOffered ==
  (Mounted /\ huser /\ session /\ ~hs.isLoading
     /\ StatusBadge(hs) # "Connected") => RetryEnabled(hs)

\* The step in which the storeKnowbookApiKey call of process p returns, and
\* what the provider's update did in it.
StoreReturns(p) ==
  IF p = S THEN spc = "store" /\ spc' # "store"
  ELSE cpc[p] = "store" /\ cpc'[p] # "store"
LastOut(p) == outs'[p][Len(outs'[p])]

\* C19: storeKnowbookApiKey always returns a result: when the provider's
\* update succeeds the record holds the caller's api key, backend user id
\* and organization id with created-at and last-validated both the time of
\* the write, so the record is not stale then, and the caller goes on with
\* success; when the update fails or throws nothing is written and the
\* caller goes on with the failure result.
C19_StoreStampsFreshRecord ==
  [][\A p \in Issuers :
       StoreReturns(p) =>
         /\ LastOut(p) = "ok" =>
              /\ meta'.knowbook_api_key = ApiKeyOf(p)
              /\ meta'.knowbook_user_id = AdminIdOf(p)
              /\ meta'.knowbook_organization_id = OrgIdOf(p)
              /\ meta'.api_key_created_at = now
              /\ meta'.api_key_last_validated = now
              /\ ~(now' - meta'.api_key_last_validated > 24 * 3600000)
              /\ meta'.full_name = meta.full_name
              /\ wrote' = Append(wrote, p)
              /\ p \in Requests => cresp'[p] = Response(200, "success")
         /\ LastOut(p) # "ok" =>
              /\ meta' = meta /\ wrote' = wrote
              /\ p \in Requests => cresp'[p] = Response(500, "store_failed")
         /\ p = S => sres' = "/auth/signup/success"
    ]_vars

C19_Witness ==
  /\ wrote # <<>>
  /\ meta.knowbook_api_key = ApiKeyOf(wrote[Len(wrote)])
  /\ meta.api_key_created_at = now /\ meta.api_key_last_validated = now
  /\ now > 0

\* C20: the write of updateApiKeyValidation sets api_key_last_validated to
\* the time of the write and leaves every other metadata key as it was read
\* (a key that was not set when read is left alone), so when nothing wrote
\* the record since the read only api_key_last_validated changes; when the
\* read or the write fails the record is unchanged and the call still
\* returns.
C20_TouchChangesOnlyValidation ==
  [][/\ (tpc = "update" /\ tpc' = "done") =>
          IF outs'[T][Len(outs'[T])] = "ok"
            THEN /\ meta'.api_key_last_validated = now
                 /\ \A k \in DOMAIN meta \ {"api_key_last_validated"} :
                      meta'[k] = IF tsnap[k] # UnsetValue(k)
                                   THEN tsnap[k] ELSE meta[k]
                 /\ tsnap = meta =>
                      \A k \in DOMAIN meta \ {"api_key_last_validated"} :
                        meta'[k] = meta[k]
            ELSE meta' = meta
     /\ (tpc = "start" /\ tpc' # "start") =>
          /\ meta' = meta
          /\ tpc' = "done" <=> outs'[T][1] \in {"error", "throw"}
    ]_vars

C20_Witness ==
  /\ tpc = "done"
  /\ outs[T] = <<"user", "ok">>
  /\ meta.knowbook_api_key # Absent
  /\ meta.api_key_created_at = 0
  /\ meta.api_key_last_validated = now /\ now > 0

C22_OrganizationNamePrecedence ==
  qout # NoRequest =>
    LET given(v) == v.set /\ Len(v.text) > 0
        name == qout.name.text
    IN
    /\ qout.name.set
    /\ given(qin.organizationName) => name = qin.organizationName.text
    /\ (~given(qin.organizationName) /\ given(qin.fullName)) =>
         name = qin.fullName.text
    /\ (~given(qin.organizationName) /\ ~given(qin.fullName)) =>
         \E n \in 0..Len(qin.email) :
           /\ name = SubSeq(qin.email, 1, n)
           /\ \A i \in 1..n : qin.email[i] # "@"
           /\ n = Len(qin.email) \/ qin.email[n + 1] = "@"

C22_Witness ==
  /\ qout # NoRequest
  /\ qin.organizationName = Str(<<>>)
  /\ qin.fullName = Undefined
  /\ qin.email = <<"an", "@", "x", "@", "y">>
  /\ qout.name = Str(<<"an">>)

\* C23: the plan sent for a signup is 'free' when the input has no plan
\* (absent or the empty string) and the input's plan unchanged otherwise;
\* the client's second defaulting changes nothing of what signup passed.
C23_PlanDefaultsToFree ==
  qout # NoRequest =>
    /\ (~qin.plan.set \/ qin.plan.text = <<>>) => qout.plan = Str(<<"free">>)
    /\ (qin.plan.set /\ qin.plan.text # <<>>) => qout.plan = qin.plan
    /\ qout.plan = SignupData(qin).plan

C23_Witness ==
  /\ qout # NoRequest
  /\ qin.plan = Str(<<"pro">>)
  /\ qout.plan = Str(<<"pro">>)

\* C27: no response of the connect endpoint depends on the value of the api
\* key: the GET status response, the POST success response and every POST
\* error response are the same when the stored or newly issued key has any
\* other value.
C27_ResponsesHideApiKey ==
  eout # NoEndpointResponse =>
    \A q \in Issuers : EndpointResponse([ein EXCEPT !.key = ApiKeyOf(q)]) = eout

C27_Witness ==
  /\ ein.handler = "POST" /\ ein.tag = "success"
  /\ ein.key # ApiKeyOf(ein.issuer)
  /\ eout.status = 200
  /\ eout.body.user.id = AdminIdOf(ein.issuer)

\* The external calls of one signup run and of one POST, in program order.
SignupOrder == <<"signUp", "health", "org", "store">>

ConnectOrder == <<"getUser", "json", "health", "org", "store">>

IsPrefix(a, b) == Len(a) <= Len(b) /\ a = SubSeq(b, 1, Len(a))

\* C24: within one signup run and within one POST, the calls made so far
\* are an initial part of signUp (getUser, body), health check,
\* organization signup, credential store write, so each is made at most
\* once and in that order; at most one call is outstanding, so each starts
\* only after the previous one returned; a run that has ended has no call
\* outstanding, so nothing is called again after a failure.
C24_CallsOnceInOrder ==
  /\ IsPrefix(calls[S], SignupOrder)
  /\ Len(outs[S]) <= Len(calls[S]) /\ Len(calls[S]) <= Len(outs[S]) + 1
  /\ spc = "done" => Len(calls[S]) = Len(outs[S])
  /\ \A r \in Requests :
       /\ IsPrefix(calls[r], ConnectOrder)
       /\ Len(outs[r]) <= Len(calls[r]) /\ Len(calls[r]) <= Len(outs[r]) + 1
       /\ cpc[r] = "done" => Len(calls[r]) = Len(outs[r])

\* A signup run whose store write failed, then a POST that made all its
\* calls and whose store write failed too.
C24_Witness ==
  /\ spc = "done" /\ calls[S] = SignupOrder /\ Out(S, 4) = "error"
  /\ \E r \in Requests :
       /\ cpc[r] = "done" /\ calls[r] = ConnectOrder
       /\ Out(r, 3) = "true" /\ Out(r, 5) = "throw"

\* C26: a POST that answered 200 success wrote the credentials issued in
\* that request to the Credential Record.
C26_SuccessMeansStored ==
  \A r \in Requests :
    cresp[r] = Response(200, "success") => r \in Range(wrote)

\* C25: a load that has just read a stale record and started its probe
\* hands no key to components: the key was loaded in this step, its record
\* is stale, and no probe has returned since.
C25_StaleKeyWithheldUntilProbed ==
  [][\A l \in Loads :
       (hpc[l] = "getMetadata" /\ hpc'[l] = "validate") =>
          /\ UseKnowbookApiKey(hs') = Absent
          /\ ~UseHasKnowbookAccess(hs')]_vars

\* C29: the consumer is loading only while a metadata read is outstanding
\* (or before the mount effect has run), so every load leaves loading once
\* its read has returned, whatever it returned; and the step in which a
\* read returns clears the flag, also when that step starts the probe of a
\* stale key, which is then still outstanding.
C29_LoadingEndsWithTheRead ==
  /\ hs.isLoading => (~Mounted \/ \E l \in Loads : hpc[l] = "getMetadata")
  /\ hlast[1] = "loadMetadata" =>
       /\ ~hs.isLoading
       /\ hpc[hlast[2]] \in {"validate", "done"}

\* A read returned a stale key: the probe is outstanding and the flag is
\* already cleared.
C29_Witness ==
  \E l \in Loads :
    /\ hlast = <<"loadMetadata", l>>
    /\ hpc[l] = "validate"
    /\ ShouldRefreshApiKey(hmd[l][1], hat[l])
    /\ ~hs.isLoading

\* The five statuses of the card.
BadgeStatuses ==
  {"Checking...", "Error", "Not Connected", "Connected", "Needs Validation"}

\* C30: every state of the consumer shows one of the five statuses, chosen
\* by priority loading, error, no key, validated, needs validation; it is
\* 'Connected' exactly when the state is not loading, has no error, holds a
\* key and is validated; and the message is chosen by the same priority.
C30_BadgePriority ==
  LET b == StatusBadge(hs)
      m == StatusMessage(hs)
      loading == hs.isLoading
      failed == hs.error # "none"
      keyed == hs.apiKey # Absent
  IN
  /\ b \in BadgeStatuses
  /\ loading => b = "Checking..."
  /\ (~loading /\ failed) => b = "Error"
  /\ (~loading /\ ~failed /\ ~keyed) => b = "Not Connected"
  /\ (~loading /\ ~failed /\ keyed /\ ~hs.isValidated) => b = "Needs Validation"
  /\ b = "Connected" <=> (~loading /\ ~failed /\ keyed /\ hs.isValidated)
  /\ b = "Checking..." <=> m = "Checking Knowbook connection..."
  /\ b = "Error" <=> (~loading /\ m = hs.error)
  /\ b = "Not Connected" <=>
        (~failed /\ m = "No Knowbook API key found. Please contact support.")
  /\ b = "Connected" <=> m = "Successfully connected to Knowbook"
  /\ b = "Needs Validation" <=> m = "API key needs validation"

\* The load found no key: the state holds that error and no key, and the
\* error wins; and a state that is validated without a key exists too.
C30_Witness ==
  /\ Mounted
  /\ ~hs.isLoading /\ hs.error # "none" /\ hs.apiKey = Absent /\ hs.isValidated
  /\ StatusBadge(hs) = "Error"
  /\ StatusMessage(hs) = hs.error

\* The record as the consumer would read it now is stale.
RecordStale == ShouldRefreshApiKey(KnowbookMetadataOf(meta), now)

\* C28: no step of the consumer (mount, load, probe, manual validation,
\* auth event, clearError) changes the Credential Record, so its
\* api_key_last_validated stays as issued; a record that is stale is still
\* stale after the step; and a load whose read returns a keyed record while
\* the record is stale calls validateApiKey, whatever earlier probes said.
C28_ConsumerNeverWritesStore ==
  [][/\ meta' = meta
     /\ RecordStale => RecordStale'
     /\ \A l \in Loads :
          (/\ hpc[l] = "getMetadata" /\ hpc'[l] # "getMetadata"
           /\ HasApiKey(hmd'[l]) /\ RecordStale) =>
             /\ hpc'[l] = "validate"
             /\ hcalls'[l] = <<"getKnowbookMetadata", "validateApiKey">>]_vars

\* The first load probed a stale key and the probe said valid; a later load
\* has read the same record, unchanged and still stale, and probes again.
C28_Witness ==
  \E l \in Loads :
    /\ l # Mount
    /\ hlast = <<"loadMetadata", l>>
    /\ hret[Mount] = "true"
    /\ hcalls[Mount] = <<"getKnowbookMetadata", "validateApiKey">>
    /\ hpc[l] = "validate"
    /\ hcalls[l] = <<"getKnowbookMetadata", "validateApiKey">>
    /\ meta.api_key_last_validated = 0
    /\ RecordStale

====
